---- MODULE Spec2Model ----
(***************************************************************************)
(* Model of paper-plane's reqwest transport (src/clients/reqwest/mod.rs)   *)
(* and of the share_links service built on it (src/services/               *)
(* share_links.rs).                                                        *)
(*                                                                         *)
(* One client performs one API call at a time.  A call is split at its     *)
(* suspension points (execute().await, text().await, bytes().await), so    *)
(* that what has and has not happened before a result is returned is       *)
(* visible: how often the request was executed, how often the body was     *)
(* read, how often a deserialization was attempted.                        *)
(*                                                                         *)
(* Extra.duration is a wall-clock measurement and is left out.             *)
(***************************************************************************)
EXTENDS Integers, Sequences, FiniteSets, TLC

VARIABLES
    client,      \* struct Client: server_url, auth, additional_headers
    pc,          \* where the running call is suspended
    call,        \* the arguments of the running call
    request,     \* the reqwest::Request that build() produced
    resp,        \* the reqwest::Response that execute() produced
    locals,      \* status, headers, content_type read off the response
    counters,    \* what the running call has done so far
    result,      \* what request_json / request_bytes / request_unit returned
    returned,    \* what the API function (service or pagination) returned
    current      \* the Paginated<Item> the caller retains, if any

vars == <<client, pc, call, request, resp, locals, counters, result, returned, current>>

----------------------------------------------------------------------------
(* Bounds *)

\* Longest list of additional headers a client is configured with.
MaxHeaders == 2

----------------------------------------------------------------------------
(* Option, Result *)

None == [some |-> FALSE]
Some(x) == [some |-> TRUE, v |-> x]

Ok(value, extra) == [kind |-> "Ok", value |-> value, extra |-> extra]
Err(e) == [kind |-> "Err", error |-> e]

Nothing == [kind |-> "nothing"]

----------------------------------------------------------------------------
(* utils::Method and its translation *)

Method == {"GET", "PUT", "POST", "PATCH", "DELETE"}

translate_method(method) ==
    CASE method = "GET" -> "reqwest::Method::GET"
      [] method = "PUT" -> "reqwest::Method::PUT"
      [] method = "POST" -> "reqwest::Method::POST"
      [] method = "PATCH" -> "reqwest::Method::PATCH"
      [] method = "DELETE" -> "reqwest::Method::DELETE"

----------------------------------------------------------------------------
(* http::HeaderMap: a multimap.  An entry per header name, in the order    *)
(* the names were first added; under a name, its values in the order they  *)
(* were added.                                                             *)

\* HeaderName::try_from: names are case-insensitive and stored in lower
\* case; a name with a character that is no token character is refused.
HeaderNameFrom(name) ==
    CASE name = "Accept" -> Some("accept")
      [] name = "Authorization" -> Some("authorization")
      [] name = "Content-Type" -> Some("content-type")
      [] name = "X-Trace" -> Some("x-trace")
      [] name = "x-trace" -> Some("x-trace")
      [] OTHER -> None

HeaderIndex(map, name) ==
    IF \E i \in 1..Len(map) : map[i].name = name
    THEN CHOOSE i \in 1..Len(map) : map[i].name = name
    ELSE 0

HeaderContainsKey(map, name) == HeaderIndex(map, name) # 0

\* HeaderMap::append: keeps the values the name already has.
HeaderAppend(map, name, value) ==
    LET i == HeaderIndex(map, name) IN
    IF i = 0
    THEN Append(map, [name |-> name, values |-> <<value>>])
    ELSE [map EXCEPT ![i].values = Append(@, value)]

\* HeaderMap::insert: drops the values the name already has.
HeaderInsert(map, name, value) ==
    LET i == HeaderIndex(map, name) IN
    IF i = 0
    THEN Append(map, [name |-> name, values |-> <<value>>])
    ELSE [map EXCEPT ![i].values = <<value>>]

HeaderGetAll(map, name) ==
    LET i == HeaderIndex(map, name) IN
    IF i = 0 THEN <<>> ELSE map[i].values

\* HeaderMap::get: the first value of the name.
HeaderGet(map, name) ==
    LET all == HeaderGetAll(map, name) IN
    IF all = <<>> THEN None ELSE Some(all[1])

----------------------------------------------------------------------------
(* JSON text and serde_json.  A text is a sequence of lexical tokens.      *)

TStr(s) == [k |-> "str", v |-> s]       \* a string literal "s"
TNum(n) == [k |-> "num", v |-> n]       \* a number literal
TLit(l) == [k |-> "lit", v |-> l]       \* null, true, false
TPun(p) == [k |-> "punct", v |-> p]     \* { } [ ] : ,
TJunk(j) == [k |-> "junk", v |-> j]     \* characters that start no JSON token
TRaw(b) == [k |-> "raw", v |-> b]       \* bytes that are not valid UTF-8

\* What a JSON string holds: the characters of a literal, or a whole text.
Chars(s) == [chars |-> s]
RawText(text) == [text |-> text]

JNull == [t |-> "null"]
JBool(b) == [t |-> "bool", b |-> b]
JNumber(n) == [t |-> "number", n |-> n]
JString(s) == [t |-> "string", s |-> s]
JArray(a) == [t |-> "array", a |-> a]
JObject(m) == [t |-> "object", m |-> m]

ParseFail == [ok |-> FALSE]
Parsed(v, rest) == [ok |-> TRUE, v |-> v, rest |-> rest]

RECURSIVE ParseValue(_), ParseMembers(_, _), ParseElements(_, _)

ParseValue(ts) ==
    IF ts = <<>> THEN ParseFail
    ELSE LET t == Head(ts)
             r == Tail(ts)
         IN CASE t.k = "str" -> Parsed(JString(Chars(t.v)), r)
              [] t.k = "num" -> Parsed(JNumber(t.v), r)
              [] t.k = "lit" ->
                    IF t.v = "null" THEN Parsed(JNull, r)
                    ELSE Parsed(JBool(t.v = "true"), r)
              [] t = TPun("{") ->
                    IF r # <<>> /\ Head(r) = TPun("}")
                    THEN Parsed(JObject(<<>>), Tail(r))
                    ELSE ParseMembers(r, <<>>)
              [] t = TPun("[") ->
                    IF r # <<>> /\ Head(r) = TPun("]")
                    THEN Parsed(JArray(<<>>), Tail(r))
                    ELSE ParseElements(r, <<>>)
              [] OTHER -> ParseFail

ParseMembers(ts, acc) ==
    IF Len(ts) < 2 \/ ts[1].k # "str" \/ ts[2] # TPun(":") THEN ParseFail
    ELSE LET pv == ParseValue(SubSeq(ts, 3, Len(ts))) IN
         IF ~pv.ok \/ pv.rest = <<>> THEN ParseFail
         ELSE LET acc2 == Append(acc, [key |-> ts[1].v, val |-> pv.v]) IN
              IF Head(pv.rest) = TPun("}") THEN Parsed(JObject(acc2), Tail(pv.rest))
              ELSE IF Head(pv.rest) = TPun(",") THEN ParseMembers(Tail(pv.rest), acc2)
              ELSE ParseFail

ParseElements(ts, acc) ==
    LET pv == ParseValue(ts) IN
    IF ~pv.ok \/ pv.rest = <<>> THEN ParseFail
    ELSE LET acc2 == Append(acc, pv.v) IN
         IF Head(pv.rest) = TPun("]") THEN Parsed(JArray(acc2), Tail(pv.rest))
         ELSE IF Head(pv.rest) = TPun(",") THEN ParseElements(Tail(pv.rest), acc2)
         ELSE ParseFail

\* serde_json::from_str::<serde_json::Value>: one value, then the end of the
\* text (trailing characters are an error).
FromStrValue(text) ==
    LET pv == ParseValue(text) IN
    IF pv.ok /\ pv.rest = <<>> THEN Some(pv.v) ELSE None

\* The member of an object under a key, if any.
Member(json, key) ==
    IF json.t = "object" /\ \E i \in 1..Len(json.m) : json.m[i].key = key
    THEN Some(json.m[CHOOSE i \in 1..Len(json.m) : json.m[i].key = key].val)
    ELSE None

----------------------------------------------------------------------------
(* The schema types the share_links service decodes into.                  *)

ItemTypename == "ShareLink"
PageTypename == "Paginated<ShareLink>"

\* ShareLink, as far as the transport is concerned: an object with a
\* numeric id.
FromJsonItem(json) ==
    LET id == Member(json, "id") IN
    IF id.some /\ id.v.t = "number" THEN Some([id |-> id.v.n]) ELSE None

\* An optional navigation token: a string, or null, or left out.
FromJsonToken(member) ==
    IF ~member.some \/ member.v.t = "null" THEN Some(None)
    ELSE IF member.v.t = "string" THEN Some(Some(member.v.s.chars))
    ELSE None

\* Paginated<Item>: count, next, previous, results.
FromJsonPaginated(json) ==
    LET count == Member(json, "count")
        next == FromJsonToken(Member(json, "next"))
        previous == FromJsonToken(Member(json, "previous"))
        results == Member(json, "results")
    IN IF /\ count.some /\ count.v.t = "number"
          /\ next.some /\ previous.some
          /\ results.some /\ results.v.t = "array"
          /\ \A i \in 1..Len(results.v.a) : FromJsonItem(results.v.a[i]).some
       THEN Some([count |-> count.v.n,
                  next |-> next.v,
                  previous |-> previous.v,
                  results |-> [i \in 1..Len(results.v.a) |-> FromJsonItem(results.v.a[i]).v]])
       ELSE None

\* serde_json::from_str::<R>(text), R named by typename.
FromStr(typename, text) ==
    LET json == FromStrValue(text) IN
    IF ~json.some THEN None
    ELSE IF typename = ItemTypename THEN FromJsonItem(json.v)
    ELSE FromJsonPaginated(json.v)

----------------------------------------------------------------------------
(* reqwest::StatusCode and reqwest::Response                               *)

is_client_error(status) == 400 <= status /\ status <= 499
is_server_error(status) == 500 <= status /\ status <= 599

\* Response::error_for_status_ref: an error for a client or server error
\* status, the response itself for every other status.
error_for_status_ref(status) ==
    IF is_client_error(status) \/ is_server_error(status)
    THEN [kind |-> "Err"]
    ELSE [kind |-> "Ok"]

\* Display of a StatusCode: the code and its canonical reason.
StatusDisplay(status) ==
    CASE status = 201 -> "201 Created"
      [] status = 204 -> "204 No Content"
      [] status = 300 -> "300 Multiple Choices"
      [] status = 404 -> "404 Not Found"
      [] status = 500 -> "500 Internal Server Error"

\* A header value as received: its bytes, and whether they all are visible
\* ASCII characters.
HV(s) == [s |-> s, visible |-> TRUE]
HVOpaque(s) == [s |-> s, visible |-> FALSE]

\* HeaderValue::to_str().ok()
to_str(value) == IF value.visible THEN Some(value.s) ELSE None

\* Response::text: the body decoded as UTF-8, every invalid sequence
\* replaced by U+FFFD.
DecodeText(body) ==
    [i \in 1..Len(body) |-> IF body[i].k = "raw" THEN TJunk("U+FFFD") ELSE body[i]]

----------------------------------------------------------------------------
(* What a server may answer *)

Statuses == {201, 204, 300, 404, 500}

ContentTypeEntry(values) == <<[name |-> "content-type", values |-> values]>>

ResponseHeaders ==
    { <<>>,
      ContentTypeEntry(<<HV("application/json")>>),
      ContentTypeEntry(<<HV("application/json; charset=utf-8")>>),
      ContentTypeEntry(<<HV("Application/JSON")>>),
      ContentTypeEntry(<<HV("text/html")>>),
      ContentTypeEntry(<<HVOpaque("text/html; charset=\\xFC")>>),
      ContentTypeEntry(<<HV("application/json"), HV("text/html")>>) }

NextUrl == "http://paperless.local/api/share_links/?page=3"
PreviousUrl == "http://paperless.local/api/share_links/"

BodyDetail ==     \* {"detail":"error"}
    <<TPun("{"), TStr("detail"), TPun(":"), TStr("error"), TPun("}")>>
BodyItem ==       \* {"id":5}
    <<TPun("{"), TStr("id"), TPun(":"), TNum("5"), TPun("}")>>
BodyLastPage ==   \* {"count":1,"next":null,"results":[{"id":5}]}
    <<TPun("{"), TStr("count"), TPun(":"), TNum("1"), TPun(","),
      TStr("next"), TPun(":"), TLit("null"), TPun(","),
      TStr("results"), TPun(":"), TPun("[")>> \o BodyItem \o <<TPun("]"), TPun("}")>>
BodyMiddlePage == \* {"count":3,"next":"...","previous":"...","results":[]}
    <<TPun("{"), TStr("count"), TPun(":"), TNum("3"), TPun(","),
      TStr("next"), TPun(":"), TStr(NextUrl), TPun(","),
      TStr("previous"), TPun(":"), TStr(PreviousUrl), TPun(","),
      TStr("results"), TPun(":"), TPun("["), TPun("]"), TPun("}")>>
BodyString ==     \* "error"
    <<TStr("error")>>
BodyGarbage ==    \* <html>
    <<TJunk("<html>")>>
BodyEmpty == <<>>
BodyNotUtf8 ==    \* {"id":5} followed by the byte FF
    BodyItem \o <<TRaw("FF")>>

Bodies ==
    {BodyDetail, BodyItem, BodyLastPage, BodyMiddlePage, BodyString,
     BodyGarbage, BodyEmpty, BodyNotUtf8}

ServerResponses == [status : Statuses, headers : ResponseHeaders, body : Bodies]

----------------------------------------------------------------------------
(* error::Error.  The source field of a variant is the library's error and *)
(* is left out.                                                            *)

RequestBuildError(method, endpoint) ==
    [variant |-> "RequestBuild", method |-> method, endpoint |-> endpoint]
RequestSendError(method, endpoint) ==
    [variant |-> "RequestSend", method |-> method, endpoint |-> endpoint]
ServerError(method, endpoint, status, content) ==
    [variant |-> "Server", method |-> method, endpoint |-> endpoint,
     status |-> status, content |-> content]
ContentTypeError(method, endpoint, expected, received) ==
    [variant |-> "ContentType", method |-> method, endpoint |-> endpoint,
     expected |-> expected, received |-> received]
ResponseBodyError(method, endpoint) ==
    [variant |-> "ResponseBody", method |-> method, endpoint |-> endpoint]
DeserializingError(method, endpoint, typename, content) ==
    [variant |-> "Deserializing", method |-> method, endpoint |-> endpoint,
     typename |-> typename, content |-> content]

Extra(method, endpoint, status, headers, content_type) ==
    [method |-> method, endpoint |-> endpoint, status |-> status,
     headers |-> headers, content_type |-> content_type]

----------------------------------------------------------------------------
(* Client configuration *)

ServerUrl == "http://paperless.local"

\* auth::Auth, as far as the transport is concerned: the value of the
\* authorization header it stands for.
Auths == {[header_value |-> "Token 0123abcd"]}
header_value(auth) == auth.header_value

AcceptValue == "application/json; version=9"

\* The (name, value) pairs a client may be configured with.
HeaderPool ==
    { <<"X-Trace", "1">>, <<"x-trace", "2">>, <<"Accept", "text/html">>,
      <<"Authorization", "Token other">>, <<"bad name", "x">> }

HeaderLists == UNION {[1..n -> HeaderPool] : n \in 0..MaxHeaders}

\* utils::params::NONE, utils::body::NONE
ParamsNone == <<>>
BodyNone == None

\* What the service's callers pass.
ListParams == {ParamsNone, <<<<"page", "2">>>>}
CreateBodies == {[document |-> "12", expiration |-> "null"]}
PatchBodies == {[expiration |-> "2030-01-01"]}
Ids == {5}

\* What a caller of request_bytes passes.
BytesMethods == {"GET", "PUT"}
DownloadPath == "/api/documents/5/download/"

----------------------------------------------------------------------------
(* reqwest::RequestBuilder.  Once a step has failed, the builder holds the *)
(* error and the later steps leave it alone.                               *)

BuilderNew(method, url) ==
    [method |-> method, url |-> url, headers |-> <<>>, query |-> <<>>,
     body |-> None, failed |-> FALSE]

\* As BuilderHeader, but through HeaderMap::insert.
BuilderHeaderReplacing(builder, name, value) ==
    LET key == HeaderNameFrom(name) IN
    IF builder.failed THEN builder
    ELSE IF ~key.some THEN [builder EXCEPT !.failed = TRUE]
    ELSE [builder EXCEPT !.headers = HeaderInsert(@, key.v, value)]

\* RequestBuilder::header: appends.
BuilderHeader(builder, name, value) ==
    LET key == HeaderNameFrom(name) IN
    IF builder.failed THEN builder
    ELSE IF ~key.some THEN [builder EXCEPT !.failed = TRUE]
    ELSE [builder EXCEPT !.headers = HeaderAppend(@, key.v, value)]

\* RequestBuilder::query: the pairs are added to the URL's query.
BuilderQuery(builder, params) ==
    IF builder.failed THEN builder
    ELSE [builder EXCEPT !.query = @ \o params]

\* RequestBuilder::json: the body, and a content-type unless one is set.
BuilderJson(builder, body) ==
    IF builder.failed THEN builder
    ELSE [builder EXCEPT
            !.headers = IF HeaderContainsKey(@, "content-type") THEN @
                        ELSE HeaderInsert(@, "content-type", "application/json"),
            !.body = Some([json |-> body])]

RECURSIVE BuilderHeadersReplacing(_, _)
\* As BuilderHeaders, but each header replaces the values of its name.
BuilderHeadersReplacing(builder, list) ==
    IF list = <<>> THEN builder
    ELSE BuilderHeadersReplacing(
             BuilderHeaderReplacing(builder, Head(list)[1], Head(list)[2]), Tail(list))

RECURSIVE BuilderHeaders(_, _)
\* for (header_name, header_value) in &self.additional_headers
BuilderHeaders(builder, list) ==
    IF list = <<>> THEN builder
    ELSE BuilderHeaders(BuilderHeader(builder, Head(list)[1], Head(list)[2]), Tail(list))

\* Client::build
build(c, method, endpoint, params, body) ==
    LET uri == c.server_url \o endpoint
        b1 == BuilderHeader(BuilderNew(translate_method(method), uri), "Accept", AcceptValue)
        b2 == BuilderHeader(b1, "Authorization", header_value(c.auth))
        b3 == BuilderQuery(b2, params)
        b4 == IF body.some THEN BuilderJson(b3, body.v) ELSE b3
        b5 == BuilderHeaders(b4, c.additional_headers)
    IN IF b5.failed
       THEN Err(RequestBuildError(method, endpoint))
       ELSE [kind |-> "Ok",
             request |-> [method |-> b5.method, url |-> b5.url, query |-> b5.query,
                          headers |-> b5.headers, body |-> b5.body]]

----------------------------------------------------------------------------
(* The state between calls *)

ZeroCounters ==
    [dispatches |-> 0,      \* calls of request_json, request_bytes, request_unit
     executions |-> 0,      \* calls of self.inner.execute
     text_reads |-> 0,      \* calls of resp.text
     bytes_reads |-> 0,     \* calls of resp.bytes
     read_failures |-> 0,   \* calls of resp.text or resp.bytes that failed
     parses |-> 0]          \* calls of serde_json::from_str

Call(op, via, method, endpoint, params, body, typename) ==
    [op |-> op, via |-> via, method |-> method, endpoint |-> endpoint,
     params |-> params, body |-> body, typename |-> typename]

\* No call is running.
NoCall == Call("none", "none", "", "", <<>>, None, "")

PageCalls == {"previous_page", "next_page"}

\* Client::previous_page / Client::next_page: the page of a successful
\* dispatch is returned as Some(page), an error as it is.
page_returned(res) ==
    IF res.kind = "Ok" THEN [kind |-> "Ok", page |-> Some(res)] ELSE res

\* What the API function hands to its caller, given what the dispatch
\* returned: the service functions return it as it is, the pagination
\* functions return a successful page as Some(page).
Returned(via, res) ==
    IF via \in PageCalls THEN page_returned(res) ELSE res

\* The dispatch returns res.
Finish(res) ==
    /\ pc' = "done"
    /\ result' = res
    /\ returned' = Returned(call.via, res)

\* The dispatch is suspended at place.
Suspend(place) ==
    /\ pc' = place
    /\ result' = Nothing
    /\ returned' = Nothing

----------------------------------------------------------------------------
(* The parts the three operations repeat *)

\* let content_type = headers.get(CONTENT_TYPE).and_then(|h| h.to_str().ok())
content_type_of(headers) ==
    LET h == HeaderGet(headers, "content-type") IN
    IF h.some THEN to_str(h.v) ELSE None

Locals(r) ==
    [status |-> r.status, headers |-> r.headers,
     content_type |-> content_type_of(r.headers)]

\* As error_content, but the text is never parsed.
error_content_unparsed(read) ==
    IF ~read.some THEN JString(Chars("<failed to retrieve content>"))
    ELSE JString(RawText(read.v))

\* The content of a Server error, from what resp.text() gave.
error_content(read) ==
    IF ~read.some THEN JString(Chars("<failed to retrieve content>"))
    ELSE LET json == FromStrValue(read.v) IN
         IF json.some THEN json.v ELSE JString(RawText(read.v))

server_error(c, l, read) ==
    Err(ServerError(c.method, c.endpoint, StatusDisplay(l.status), error_content(read)))

\* Reading the body of an error response, and returning the Server error.
ErrorText(op) ==
    /\ pc = "error_text"
    /\ call.op = op
    /\ \E read \in {None, Some(DecodeText(resp.body))} :
         /\ counters' = [counters EXCEPT !.text_reads = @ + 1,
                                         !.read_failures = @ + (IF read.some THEN 0 ELSE 1),
                                         !.parses = @ + (IF read.some THEN 1 ELSE 0)]
         /\ Finish(server_error(call, locals, read))
    /\ UNCHANGED <<client, call, request, resp, locals, current>>

\* The first step of an operation: build, and return if it fails.
Begin(op, via, method, endpoint, params, body, typename) ==
    /\ pc = "idle"
    /\ LET built == build(client, method, endpoint, params, body) IN
       /\ call' = Call(op, via, method, endpoint, params, body, typename)
       /\ counters' = [ZeroCounters EXCEPT !.dispatches = 1]
       /\ IF built.kind = "Err"
          THEN /\ request' = Nothing
               /\ pc' = "done"
               /\ result' = built
               /\ returned' = Returned(via, built)
          ELSE /\ request' = built.request
               /\ Suspend("execute")
    /\ UNCHANGED <<client, resp, locals, current>>

\* self.inner.execute(request).await failed.
SendFailed ==
    /\ resp' = Nothing
    /\ locals' = Nothing
    /\ Finish(Err(RequestSendError(call.method, call.endpoint)))

----------------------------------------------------------------------------
(* Client::request_json *)

\* As json_after_send, but a content type that starts with application/json
\* passes (the media type is compared, its parameters are not).
json_after_send_lenient(status, content_type) ==
    IF error_for_status_ref(status).kind = "Err" THEN "error_text"
    ELSE IF content_type \notin {Some("application/json"),
                                 Some("application/json; charset=utf-8")}
         THEN "content_type"
    ELSE "text"

\* As json_after_send, but a server error is tried again.
json_after_send_retry(status, content_type) ==
    IF is_server_error(status) THEN "execute"
    ELSE IF error_for_status_ref(status).kind = "Err" THEN "error_text"
    ELSE IF content_type # Some("application/json") THEN "content_type"
    ELSE "text"

\* Where request_json goes once the response is there.
json_after_send(status, content_type) ==
    IF error_for_status_ref(status).kind = "Err" THEN "error_text"
    ELSE IF content_type # Some("application/json") THEN "content_type"
    ELSE "text"

\* As json_decode, but the error is built once the text has been taken out
\* of content.
json_decode_content_taken(c, l, content) ==
    LET value == FromStr(c.typename, content) IN
    IF value.some
    THEN Ok(value.v, Extra(c.method, c.endpoint, l.status, l.headers, l.content_type))
    ELSE Err(DeserializingError(c.method, c.endpoint, c.typename, <<>>))

\* serde_json::from_str(&content), and the envelope or the error.
json_decode(c, l, content) ==
    LET value == FromStr(c.typename, content) IN
    IF value.some
    THEN Ok(value.v, Extra(c.method, c.endpoint, l.status, l.headers, l.content_type))
    ELSE Err(DeserializingError(c.method, c.endpoint, c.typename, content))

request_json(via, method, endpoint, params, body, typename) ==
    Begin("request_json", via, method, endpoint, params, body, typename)

request_json_execute ==
    /\ pc = "execute"
    /\ call.op = "request_json"
    /\ counters' = [counters EXCEPT !.executions = @ + 1]
    /\ \/ SendFailed
       \/ \E r \in ServerResponses :
            LET l == Locals(r)
                to == json_after_send(l.status, l.content_type)
            IN /\ resp' = r
               /\ locals' = l
               /\ IF to = "content_type"
                  THEN Finish(Err(ContentTypeError(call.method, call.endpoint,
                                                   <<"application/json">>, l.content_type)))
                  ELSE Suspend(to)
    /\ UNCHANGED <<client, call, request, current>>

request_json_error_text == ErrorText("request_json")

request_json_text ==
    /\ pc = "text"
    /\ call.op = "request_json"
    /\ \/ /\ counters' = [counters EXCEPT !.text_reads = @ + 1, !.read_failures = @ + 1]
          /\ Finish(Err(ResponseBodyError(call.method, call.endpoint)))
       \/ /\ counters' = [counters EXCEPT !.text_reads = @ + 1, !.parses = @ + 1]
          /\ Finish(json_decode(call, locals, DecodeText(resp.body)))
    /\ UNCHANGED <<client, call, request, resp, locals, current>>

----------------------------------------------------------------------------
(* Client::request_bytes *)

bytes_after_send(status, content_type) ==
    IF error_for_status_ref(status).kind = "Err" THEN "error_text"
    ELSE "bytes"

\* As bytes_wrap, but of the body read as text.
bytes_wrap_decoded(c, l, bytes) ==
    Ok([bytes |-> DecodeText(bytes)],
       Extra(c.method, c.endpoint, l.status, l.headers, l.content_type))

bytes_wrap(c, l, bytes) ==
    Ok([bytes |-> bytes], Extra(c.method, c.endpoint, l.status, l.headers, l.content_type))

request_bytes(method, endpoint, params, body) ==
    Begin("request_bytes", "request_bytes", method, endpoint, params, body, "")

request_bytes_execute ==
    /\ pc = "execute"
    /\ call.op = "request_bytes"
    /\ counters' = [counters EXCEPT !.executions = @ + 1]
    /\ \/ SendFailed
       \/ \E r \in ServerResponses :
            LET l == Locals(r) IN
            /\ resp' = r
            /\ locals' = l
            /\ Suspend(bytes_after_send(l.status, l.content_type))
    /\ UNCHANGED <<client, call, request, current>>

request_bytes_error_text == ErrorText("request_bytes")

request_bytes_body ==
    /\ pc = "bytes"
    /\ call.op = "request_bytes"
    /\ \/ /\ counters' = [counters EXCEPT !.bytes_reads = @ + 1, !.read_failures = @ + 1]
          /\ Finish(Err(ResponseBodyError(call.method, call.endpoint)))
       \/ /\ counters' = [counters EXCEPT !.bytes_reads = @ + 1]
          /\ Finish(bytes_wrap(call, locals, resp.body))
    /\ UNCHANGED <<client, call, request, resp, locals, current>>

----------------------------------------------------------------------------
(* Client::request_unit *)

\* As unit_after_send, but only 204 No Content counts as done.
unit_after_send_no_content_only(status, content_type) ==
    IF status # 204 THEN "error_text" ELSE "unit"

unit_after_send(status, content_type) ==
    IF error_for_status_ref(status).kind = "Err" THEN "error_text"
    ELSE "unit"

Unit == [unit |-> TRUE]

unit_wrap(c, l) ==
    Ok(Unit, Extra(c.method, c.endpoint, l.status, l.headers, l.content_type))

request_unit(via, method, endpoint, params, body) ==
    Begin("request_unit", via, method, endpoint, params, body, "")

request_unit_execute ==
    /\ pc = "execute"
    /\ call.op = "request_unit"
    /\ counters' = [counters EXCEPT !.executions = @ + 1]
    /\ \/ SendFailed
       \/ \E r \in ServerResponses :
            LET l == Locals(r)
                to == unit_after_send(l.status, l.content_type)
            IN /\ resp' = r
               /\ locals' = l
               /\ IF to = "unit"
                  THEN Finish(unit_wrap(call, l))
                  ELSE Suspend(to)
    /\ UNCHANGED <<client, call, request, current>>

request_unit_error_text == ErrorText("request_unit")

----------------------------------------------------------------------------
(* services::share_links *)

SharePath == "/api/share_links/"
ShareItemPath(id) == "/api/share_links/" \o ToString(id) \o "/"

list(params) ==
    request_json("list", "GET", SharePath, params, BodyNone, PageTypename)

create(body) ==
    request_json("create", "POST", SharePath, ParamsNone, Some(body), ItemTypename)

retrieve(id) ==
    request_json("retrieve", "GET", ShareItemPath(id), ParamsNone, BodyNone, ItemTypename)

patch(id, body) ==
    request_json("patch", "PATCH", ShareItemPath(id), ParamsNone, Some(body), ItemTypename)

destroy(id) ==
    request_unit("destroy", "DELETE", ShareItemPath(id), ParamsNone, BodyNone)

\* Client::previous_page / Client::next_page, the trait's own functions:
\* without a token, no further page and no dispatch; with one, a
\* structured dispatch whose target is the token.
client_page(via, token) ==
    IF token.some
    THEN request_json(via, "GET", token.v, ParamsNone, BodyNone, PageTypename)
    ELSE /\ pc = "idle"
         /\ pc' = "done"
         /\ call' = Call("none", via, "", "", ParamsNone, BodyNone, "")
         /\ counters' = ZeroCounters
         /\ request' = Nothing
         /\ result' = Nothing
         /\ returned' = [kind |-> "Ok", page |-> None]
         /\ UNCHANGED <<client, resp, locals, current>>

previous_page ==
    /\ current.some
    /\ client_page("previous_page", current.v.previous)

next_page ==
    /\ current.some
    /\ client_page("next_page", current.v.next)

----------------------------------------------------------------------------
(* The caller *)

\* The pages the caller may keep once the call has returned.
Pages ==
    IF returned.kind # "Ok" THEN {}
    ELSE IF call.via = "list" THEN {Some(returned.value)}
    ELSE IF call.via \in PageCalls /\ returned.page.some
         THEN {Some(returned.page.v.value)}
    ELSE {}

\* The caller takes the result; nothing of the call is left but a page it
\* chose to keep.
take_result ==
    /\ pc = "done"
    /\ pc' = "idle"
    /\ \E keep \in {current} \cup Pages : current' = keep
    /\ call' = NoCall
    /\ request' = Nothing
    /\ resp' = Nothing
    /\ locals' = Nothing
    /\ counters' = ZeroCounters
    /\ result' = Nothing
    /\ returned' = Nothing
    /\ UNCHANGED client

\* Client::additional_headers_mut, used to add a header between calls.
additional_headers_mut(header) ==
    /\ pc = "idle"
    /\ Len(client.additional_headers) < MaxHeaders
    /\ client' = [client EXCEPT !.additional_headers = Append(@, header)]
    /\ UNCHANGED <<pc, call, request, resp, locals, counters, result, returned, current>>

----------------------------------------------------------------------------
(* The specification *)

\* Client::new, Client::with_headers
new(server_url, auth) ==
    [server_url |-> server_url, auth |-> auth, additional_headers |-> <<>>]
with_headers(server_url, auth, headers) ==
    [server_url |-> server_url, auth |-> auth, additional_headers |-> headers]

Init ==
    /\ client \in {new(ServerUrl, a) : a \in Auths}
                  \cup {with_headers(ServerUrl, a, h) : a \in Auths, h \in HeaderLists}
    /\ pc = "idle"
    /\ call = NoCall
    /\ request = Nothing
    /\ resp = Nothing
    /\ locals = Nothing
    /\ counters = ZeroCounters
    /\ result = Nothing
    /\ returned = Nothing
    /\ current = None

Next ==
    \/ \E params \in ListParams : list(params)
    \/ \E body \in CreateBodies : create(body)
    \/ \E id \in Ids : retrieve(id)
    \/ \E id \in Ids, body \in PatchBodies : patch(id, body)
    \/ \E id \in Ids : destroy(id)
    \/ previous_page
    \/ next_page
    \/ \E method \in BytesMethods : request_bytes(method, DownloadPath, ParamsNone, BodyNone)
    \/ request_json_execute
    \/ request_json_error_text
    \/ request_json_text
    \/ request_bytes_execute
    \/ request_bytes_error_text
    \/ request_bytes_body
    \/ request_unit_execute
    \/ request_unit_error_text
    \/ take_result
    \/ \E header \in HeaderPool : additional_headers_mut(header)

Spec == Init /\ [][Next]_vars

----------------------------------------------------------------------------
(* What the claims speak of *)

Transport == {"request_json", "request_bytes", "request_unit"}

\* The success range of statuses: 2xx.
is_success(status) == 200 <= status /\ status <= 299

\* The operation op has returned.
Done(op) == pc = "done" /\ call.op = op

\* The request was built and sent, and a response came back.
Received == resp # Nothing

ErrIs(res, variant) == res.kind = "Err" /\ res.error.variant = variant

BodyUntouched ==
    /\ counters.text_reads = 0
    /\ counters.bytes_reads = 0
    /\ counters.parses = 0

\* The content-type header as the server sent it: the first value under
\* the name, if there is one and it is a string.
ObservedContentType ==
    LET values == HeaderGetAll(resp.headers, "content-type") IN
    IF values = <<>> \/ ~values[1].visible THEN None ELSE Some(values[1].s)

\* The Extra of the running call, from the call's arguments and the response.
ExpectedExtra ==
    Extra(call.method, call.endpoint, resp.status, resp.headers, ObservedContentType)

----------------------------------------------------------------------------
(* C1 *)

\* C1: whenever one of the three operations has received a response whose
\* status is not a success status (not 2xx), it returns Error::Server,
\* whatever the content type and the body are.
C1_NonSuccessIsServer ==
    \A op \in Transport :
        (Done(op) /\ Received /\ ~is_success(resp.status)) => ErrIs(result, "Server")

----------------------------------------------------------------------------
(* C2 *)

\* C2: request_json, on a success status with a content-type header other
\* than exactly application/json (another value, a value with parameters,
\* no header), returns Error::ContentType with expected = [application/json]
\* and received = the header as observed, and has neither read nor parsed
\* the body.
C2_ContentTypeBeforeBody ==
    (/\ Done("request_json")
     /\ Received
     /\ is_success(resp.status)
     /\ ObservedContentType # Some("application/json"))
    => /\ result = Err(ContentTypeError(call.method, call.endpoint,
                                        <<"application/json">>, ObservedContentType))
       /\ BodyUntouched

C2_Witness ==
    /\ Done("request_json")
    /\ Received
    /\ resp.status = 201
    /\ HeaderGetAll(resp.headers, "content-type")
         = <<HV("application/json; charset=utf-8")>>
    /\ resp.body = BodyItem
    /\ ErrIs(result, "ContentType")
    /\ result.error.received = Some("application/json; charset=utf-8")

----------------------------------------------------------------------------
(* C4 *)

\* C4: request_json, on a success status with content type application/json
\* and a body that was read but does not parse as R, returns
\* Error::Deserializing with the text as read, the name of R, and the
\* caller's method and endpoint.
C4_DeserializingKeepsText ==
    (/\ Done("request_json")
     /\ Received
     /\ is_success(resp.status)
     /\ ObservedContentType = Some("application/json")
     /\ counters.read_failures = 0
     /\ ~FromStr(call.typename, DecodeText(resp.body)).some)
    => result = Err(DeserializingError(call.method, call.endpoint, call.typename,
                                       DecodeText(resp.body)))

C4_Witness ==
    /\ Done("request_json")
    /\ call.via = "create"
    /\ Received
    /\ resp.status = 201
    /\ resp.body = BodyDetail
    /\ ErrIs(result, "Deserializing")
    /\ result.error.content = BodyDetail
    /\ result.error.typename = ItemTypename
    /\ result.error.method = "POST"
    /\ result.error.endpoint = "/api/share_links/"

----------------------------------------------------------------------------
(* C5 *)

\* C5: an Error::Server of any of the three operations carries the parsed
\* JSON of the error body when the body's text parses, a JSON string of the
\* text as read when it does not, and the string
\* "<failed to retrieve content>" when the body could not be read; and an
\* error status ends in Error::Server whether or not the body could be read
\* or parsed.
C5_ServerContent ==
    \A op \in Transport :
        /\ (Done(op) /\ ErrIs(result, "Server")) =>
              LET text == DecodeText(resp.body)
                  json == FromStrValue(text)
              IN result.error.content =
                    IF counters.read_failures > 0
                    THEN JString(Chars("<failed to retrieve content>"))
                    ELSE IF json.some THEN json.v
                    ELSE JString(RawText(text))
        /\ (Done(op) /\ Received /\ counters.text_reads > 0
                     /\ error_for_status_ref(resp.status).kind = "Err")
              => ErrIs(result, "Server")

C5_Witness ==
    /\ Done("request_json")
    /\ call.via = "list"
    /\ Received
    /\ resp.status = 500
    /\ resp.body = BodyDetail
    /\ ErrIs(result, "Server")
    /\ result.error.status = "500 Internal Server Error"
    /\ result.error.content
         = JObject(<<[key |-> "detail", val |-> JString(Chars("error"))]>>)

----------------------------------------------------------------------------
(* C3 *)

\* C3: request_json returns Ok exactly when the response has a success
\* status, its content type is exactly application/json and its body, once
\* read, parses as R; the envelope then holds the decoded R and the caller's
\* method and endpoint, the response's status, headers and content type.
C3_EnvelopeOnlyOnSuccess ==
    LET text == DecodeText(resp.body)
        value == FromStr(call.typename, text)
        good == /\ is_success(resp.status)
                /\ ObservedContentType = Some("application/json")
                /\ counters.read_failures = 0
                /\ value.some
    IN Done("request_json") =>
          /\ (Received /\ good) => result = Ok(value.v, ExpectedExtra)
          /\ result.kind = "Ok" => (Received /\ good)

\* The part of C3 that holds of every status: what the envelope carries.
C3_EnvelopeCarries ==
    (Done("request_json") /\ result.kind = "Ok") =>
        /\ Received
        /\ result = Ok(FromStr(call.typename, DecodeText(resp.body)).v, ExpectedExtra)

----------------------------------------------------------------------------
(* C6 *)

PageToken == IF call.via = "next_page" THEN current.v.next ELSE current.v.previous

\* C6: without a token, next_page (previous_page) returns Ok(None) and
\* nothing is dispatched or sent; with a token, exactly one structured
\* dispatch is issued, the token is the complete target of its request, and
\* its result is returned as it is.
C6_TokenIsTheTarget ==
    call.via \in PageCalls =>
        IF PageToken.some
        THEN /\ counters.dispatches = 1
             /\ call.op = "request_json"
             /\ request # Nothing =>
                   /\ request.url = PageToken.v
                   /\ request.query = <<>>
                   /\ request.body = None
             /\ pc = "done" => returned = Returned(call.via, result)
        ELSE /\ pc = "done"
             /\ returned = [kind |-> "Ok", page |-> None]
             /\ counters = ZeroCounters
             /\ request = Nothing

\* The part of C6 that holds: C6 with the token as the endpoint of the
\* dispatch, the request's target being the server URL followed by it.
C6_TokenIsTheEndpoint ==
    call.via \in PageCalls =>
        IF PageToken.some
        THEN /\ counters.dispatches = 1
             /\ call.op = "request_json"
             /\ call.method = "GET"
             /\ call.endpoint = PageToken.v
             /\ request # Nothing =>
                   /\ request.url = client.server_url \o PageToken.v
                   /\ request.query = <<>>
                   /\ request.body = None
             /\ pc = "done" => returned = Returned(call.via, result)
        ELSE /\ pc = "done"
             /\ returned = [kind |-> "Ok", page |-> None]
             /\ counters = ZeroCounters
             /\ request = Nothing

----------------------------------------------------------------------------
(* C7 *)

\* C7: every call of request_json, request_bytes or request_unit, whatever
\* it returns, has executed its request exactly once.
C7_ExactlyOneRoundTrip ==
    \A op \in Transport : Done(op) => counters.executions = 1

\* C7 as amended: a call whose request could not be built returns
\* Error::RequestBuild and has executed nothing; every other call, whatever
\* it returns, has executed its request exactly once, and no call is ever
\* past its first execution.
C7_OneRoundTripOnceBuilt ==
    /\ counters.executions <= 1
    /\ \A op \in Transport :
          Done(op) =>
             counters.executions = IF ErrIs(result, "RequestBuild") THEN 0 ELSE 1

C7_Witness ==
    /\ Done("request_json")
    /\ Received
    /\ ErrIs(result, "Server")
    /\ resp.status = 500
    /\ counters.executions = 1

----------------------------------------------------------------------------
(* C8 *)

\* The values that the configured additional headers give to a name, in
\* their configured order.
AdditionalValues(name) ==
    LET Named(h) == HeaderNameFrom(h[1]) = Some(name)
        named == SelectSeq(client.additional_headers, Named)
    IN [i \in 1..Len(named) |-> named[i][2]]

\* The values build itself gives to a name, before the additional headers.
FixedValues(name) ==
    CASE name = "accept" -> <<AcceptValue>>
      [] name = "authorization" -> <<header_value(client.auth)>>
      [] name = "content-type" -> IF call.body.some THEN <<"application/json">> ELSE <<>>
      [] OTHER -> <<>>

HeaderNames == {"accept", "authorization", "content-type", "x-trace"}

\* C8: a built request carries, under every header name, first the fixed
\* value of that name (Accept and the authorization header with the
\* configured values) and then the values of the additional headers of that
\* name in their configured order: nothing is replaced, nothing is dropped.
C8_HeadersAppended ==
    request # Nothing =>
        /\ \A name \in HeaderNames :
              HeaderGetAll(request.headers, name) = FixedValues(name) \o AdditionalValues(name)
        /\ \A i \in 1..Len(request.headers) : request.headers[i].name \in HeaderNames
        /\ HeaderGet(request.headers, "accept") = Some("application/json; version=9")
        /\ HeaderGet(request.headers, "authorization") = Some(client.auth.header_value)

C8_Witness ==
    /\ request # Nothing
    /\ client.additional_headers = << <<"Accept", "text/html">>, <<"Authorization", "Token other">> >>
    /\ HeaderGetAll(request.headers, "accept") = <<"application/json; version=9", "text/html">>
    /\ HeaderGetAll(request.headers, "authorization") = <<"Token 0123abcd", "Token other">>

----------------------------------------------------------------------------
(* C9 *)

\* C9: request_unit, on a success status, returns Ok with the unit value
\* and the response's status, whatever the content type and the body are,
\* without reading the body or deserializing anything; it fails only with
\* RequestBuild, RequestSend or Server.
C9_UnitIgnoresBody ==
    Done("request_unit") =>
        /\ (Received /\ is_success(resp.status)) =>
              /\ result = Ok(Unit, ExpectedExtra)
              /\ BodyUntouched
        /\ result.kind = "Err" =>
              result.error.variant \in {"RequestBuild", "RequestSend", "Server"}

C9_Witness ==
    /\ Done("request_unit")
    /\ Received
    /\ call.via = "destroy"
    /\ call.method = "DELETE"
    /\ call.endpoint = "/api/share_links/5/"
    /\ resp.status = 204
    /\ resp.body = BodyEmpty
    /\ result.kind = "Ok"
    /\ result.value = Unit
    /\ result.extra.status = 204

----------------------------------------------------------------------------
(* C10 *)

\* C10: request_bytes, on a success status, accepts every content type: it
\* returns Ok with the body's bytes as they are, or ResponseBody, and
\* ResponseBody exactly when reading the bytes failed; never ContentType or
\* Deserializing.
C10_BytesAnyContentType ==
    (Done("request_bytes") /\ Received /\ is_success(resp.status)) =>
        /\ counters.parses = 0
        /\ counters.text_reads = 0
        /\ IF counters.read_failures > 0
           THEN result = Err(ResponseBodyError(call.method, call.endpoint))
           ELSE result = Ok([bytes |-> resp.body], ExpectedExtra)

C10_Witness ==
    /\ Done("request_bytes")
    /\ Received
    /\ resp.status = 201
    /\ resp.headers = <<>>
    /\ resp.body = BodyNotUtf8
    /\ result.kind = "Ok"
    /\ result.value = [bytes |-> BodyNotUtf8]
    /\ result.extra.content_type = None

====
